---- MODULE Spec2Model ----
(***************************************************************************)
(* Interlink (src/interlink.js): resolution of the `id` query parameter    *)
(* into an item of a dataset, construction of the outbound URL, and the    *)
(* card / error panel / loading overlay / deferred navigation it leaves in *)
(* the page.                                                               *)
(*                                                                         *)
(* A JavaScript string is a sequence of tokens.  In identifiers and query  *)
(* values a token is one character; in URLs a token is one lexical piece   *)
(* ("https:", "//x.test", "/q", "?", "variant", "=", ...).                 *)
(***************************************************************************)
EXTENDS Integers, Sequences, FiniteSets, TLC

VARIABLES
  search,     \* location.search of the page
  ambient,    \* the `data` binding of the embedding page (or undefined)
  headers,    \* number of .site-header elements in the document
  roots,      \* number of elements matching main.portal
  cards,      \* rendered cards, in document order
  panels,     \* rendered error panels, in document order
  overlays,   \* .modal-bg[data-kind="interlink-loading"] elements
  timers,     \* pending setTimeout callbacks
  timerSeq,   \* number of timers created so far
  fired,      \* ids of the timers whose callback ran
  assigned,   \* URLs passed to location.assign, in order
  opened,     \* hrefs followed natively by a click (new tab / modified click)
  navigating, \* a navigation of this page has been started
  unloaded,   \* the page has been unloaded by a navigation
  consoleLog, \* console.warn / console.error calls
  calls,      \* number of Interlink.render calls made
  clicks,     \* number of clicks on card links handled
  last,       \* the last Interlink.render call: its options and what it did
  req,        \* the render call a page script is about to make (single-call runs)
  fnIn,       \* input of the helper under test (helper runs)
  fnOut       \* its result

vars == <<search, ambient, headers, roots, cards, panels, overlays, timers,
          timerSeq, fired, assigned, opened, navigating, unloaded,
          consoleLog, calls, clicks, last, req, fnIn, fnOut>>

-----------------------------------------------------------------------------
(* JavaScript values *)

Undefined == [t |-> "undefined"]
JsStr(s) == [t |-> "string", s |-> s]
JsNum == [t |-> "number"]
JsNull == [t |-> "null"]
JsBool(b) == [t |-> "boolean", b |-> b]

\* ToBoolean
Truthy(x) ==
  CASE x.t = "undefined" -> FALSE
    [] x.t = "null" -> FALSE
    [] x.t = "string" -> Len(x.s) > 0
    [] x.t = "boolean" -> x.b
    [] OTHER -> TRUE

\* a || b
Or(a, b) == IF Truthy(a) THEN a ELSE b

\* a ?? b
Coalesce(a, b) == IF a.t \in {"undefined", "null"} THEN b ELSE a

-----------------------------------------------------------------------------
(* Strings *)

IsWhite(c) == c \in {" ", "\t", "\n"}

RECURSIVE trimStart(_)
trimStart(s) ==
  IF Len(s) > 0 /\ IsWhite(Head(s)) THEN trimStart(Tail(s)) ELSE s

RECURSIVE trimEnd(_)
trimEnd(s) ==
  IF Len(s) > 0 /\ IsWhite(s[Len(s)]) THEN trimEnd(SubSeq(s, 1, Len(s) - 1)) ELSE s

\* String.prototype.trim
trim(s) == trimEnd(trimStart(s))

\* String.prototype.indexOf for one token, 1-based; 0 when absent
IndexOf(s, t) ==
  IF \E i \in 1..Len(s) : s[i] = t
  THEN CHOOSE i \in 1..Len(s) : s[i] = t /\ \A j \in 1..(i - 1) : s[j] # t
  ELSE 0

RECURSIVE Split(_, _)
Split(s, sep) ==
  LET i == IndexOf(s, sep)
  IN IF i = 0 THEN <<s>>
     ELSE <<SubSeq(s, 1, i - 1)>> \o Split(SubSeq(s, i + 1, Len(s)), sep)

RECURSIVE Flatten(_)
Flatten(ss) == IF Len(ss) = 0 THEN <<>> ELSE Head(ss) \o Flatten(Tail(ss))

RECURSIVE Join(_, _)
Join(ss, sep) ==
  IF Len(ss) = 0 THEN <<>>
  ELSE IF Len(ss) = 1 THEN Head(ss)
  ELSE Head(ss) \o <<sep>> \o Join(Tail(ss), sep)

\* String.prototype.replace(/tok/g, repl)
ReplaceAll(s, tok, repl) ==
  Flatten([i \in 1..Len(s) |-> IF s[i] = tok THEN repl ELSE <<s[i]>>])

\* the character class [A-Za-z0-9_-]
IdChar ==
  {"a", "b", "c", "d", "e", "f", "g", "h", "i", "j", "k", "l", "m",
   "n", "o", "p", "q", "r", "s", "t", "u", "v", "w", "x", "y", "z",
   "A", "B", "C", "D", "E", "F", "G", "H", "I", "J", "K", "L", "M",
   "N", "O", "P", "Q", "R", "S", "T", "U", "V", "W", "X", "Y", "Z",
   "0", "1", "2", "3", "4", "5", "6", "7", "8", "9", "_", "-"}

\* escape of one character by encodeURIComponent
EncodeChar(c) ==
  CASE c = " " -> "%20"
    [] c = "=" -> "%3D"
    [] c = "&" -> "%26"
    [] c = "<" -> "%3C"
    [] c = "/" -> "%2F"
    [] OTHER -> c

encodeURIComponent(s) == [i \in 1..Len(s) |-> EncodeChar(s[i])]

\* application/x-www-form-urlencoded serialisation of one character
FormEncodeChar(c) ==
  CASE c = " " -> "+"
    [] c = "=" -> "%3D"
    [] c = "&" -> "%26"
    [] c = "<" -> "%3C"
    [] OTHER -> c

FormEncode(s) == [i \in 1..Len(s) |-> FormEncodeChar(s[i])]

\* application/x-www-form-urlencoded decoding of one token
FormDecodeChar(c) ==
  CASE c = "+" -> " "
    [] c = "%20" -> " "
    [] c = "%3D" -> "="
    [] c = "%26" -> "&"
    [] c = "%3C" -> "<"
    [] c = "%2F" -> "/"
    [] OTHER -> c

FormDecode(s) == [i \in 1..Len(s) |-> FormDecodeChar(s[i])]

-----------------------------------------------------------------------------
(* URLSearchParams *)

\* one "k=v" piece: the first "=" splits the name from the value
ParsePair(p) ==
  LET i == IndexOf(p, "=")
  IN IF i = 0 THEN <<FormDecode(p), <<>>>>
     ELSE <<FormDecode(SubSeq(p, 1, i - 1)), FormDecode(SubSeq(p, i + 1, Len(p)))>>

RECURSIVE ParsePairs(_)
ParsePairs(ps) ==
  IF Len(ps) = 0 THEN <<>>
  ELSE IF Len(Head(ps)) = 0 THEN ParsePairs(Tail(ps))
  ELSE <<ParsePair(Head(ps))>> \o ParsePairs(Tail(ps))

\* new URLSearchParams(str): a list of <<name, value>>
URLSearchParams(str) ==
  LET q == IF Len(str) > 0 /\ Head(str) = "?" THEN Tail(str) ELSE str
  IN ParsePairs(Split(q, "&"))

\* params.get(name): the first value, or null
ParamsGet(params, name) ==
  LET hit == {i \in 1..Len(params) : params[i][1] = name}
  IN IF hit = {} THEN JsNull
     ELSE JsStr(params[CHOOSE i \in hit : \A j \in hit : i <= j][2])

RECURSIVE DropName(_, _)
DropName(params, name) ==
  IF Len(params) = 0 THEN <<>>
  ELSE IF Head(params)[1] = name THEN DropName(Tail(params), name)
  ELSE <<Head(params)>> \o DropName(Tail(params), name)

\* params.set(name, value): the first pair named so gets the value, the
\* others are removed; appended when there is none
ParamsSet(params, name, value) ==
  LET hit == {i \in 1..Len(params) : params[i][1] = name}
  IN IF hit = {} THEN Append(params, <<name, value>>)
     ELSE LET f == CHOOSE i \in hit : \A j \in hit : i <= j
          IN SubSeq(params, 1, f - 1) \o <<<<name, value>>>>
               \o DropName(SubSeq(params, f + 1, Len(params)), name)

RECURSIVE SerializePairs(_)
SerializePairs(params) ==
  IF Len(params) = 0 THEN <<>>
  ELSE <<FormEncode(Head(params)[1]) \o <<"=">> \o FormEncode(Head(params)[2])>>
         \o SerializePairs(Tail(params))

\* params.toString()
ParamsToString(params) == Join(SerializePairs(params), "&")

-----------------------------------------------------------------------------
(* URL *)

SchemeTok == {"http:", "https:", "HTTP:", "HTTPS:", "ftp:", "javascript:"}

\* the parser lower-cases the scheme
LowerScheme(t) ==
  CASE t = "HTTP:" -> "http:"
    [] t = "HTTPS:" -> "https:"
    [] OTHER -> t

SpecialScheme == {"http:", "https:", "ftp:"}

\* "//" followed by a non-empty host
HostTok == {"//x.test", "//page.test"}

\* a path-relative token resolved against the directory "/"
AbsPathOf(t) == IF t = "quiz.html" THEN "/quiz.html" ELSE t

Failure == [ok |-> FALSE]

\* the part after scheme and host: path tokens, then "?" and the query
PathAndQuery(rest) ==
  LET i == IndexOf(rest, "?")
  IN IF i = 0 THEN [path |-> rest, hasq |-> FALSE, query |-> <<>>]
     ELSE [path |-> SubSeq(rest, 1, i - 1), hasq |-> TRUE,
           query |-> SubSeq(rest, i + 1, Len(rest))]

\* a string that starts with a scheme
ParseAbsolute(s) ==
  LET proto == LowerScheme(s[1])
      rest == Tail(s)
  IN IF proto \in SpecialScheme
     THEN IF Len(rest) = 0 \/ rest[1] \notin HostTok
          THEN Failure
          ELSE LET pq == PathAndQuery(Tail(rest))
               IN [ok |-> TRUE, protocol |-> proto, host |-> rest[1],
                   path |-> IF Len(pq.path) = 0 THEN <<"/">> ELSE pq.path,
                   hasq |-> pq.hasq, query |-> pq.query]
     ELSE LET pq == PathAndQuery(rest)
          IN [ok |-> TRUE, protocol |-> proto, host |-> "",
              path |-> pq.path, hasq |-> pq.hasq, query |-> pq.query]

\* a string without a scheme, resolved against the parsed base
ParseRelative(s, base) ==
  IF Len(s) = 0 THEN base
  ELSE IF s[1] \in HostTok
  THEN LET pq == PathAndQuery(Tail(s))
       IN [ok |-> TRUE, protocol |-> base.protocol, host |-> s[1],
           path |-> IF Len(pq.path) = 0 THEN <<"/">> ELSE pq.path,
           hasq |-> pq.hasq, query |-> pq.query]
  ELSE IF s[1] = "//" THEN Failure
  ELSE LET pq == PathAndQuery(s)
       IN [ok |-> TRUE, protocol |-> base.protocol, host |-> base.host,
           path |-> IF Len(pq.path) = 0 THEN base.path
                    ELSE <<AbsPathOf(pq.path[1])>> \o Tail(pq.path),
           hasq |-> pq.hasq, query |-> pq.query]

\* new URL(url): throws (ok = FALSE) unless url is absolute
NewURL(url) ==
  LET s == trim(url)
  IN IF Len(s) > 0 /\ s[1] \in SchemeTok THEN ParseAbsolute(s) ELSE Failure

\* a faulty variant: new URL(url), the base dropped
MutNewURLBaseIgnored(url, base) == NewURL(url)

\* new URL(url, base)
NewURLBase(url, base) ==
  LET s == trim(url)
      b == NewURL(base)
  IN IF Len(s) > 0 /\ s[1] \in SchemeTok THEN ParseAbsolute(s)
     ELSE IF ~b.ok THEN Failure
     ELSE ParseRelative(s, b)

\* u.searchParams.set(name, value)
SearchParamsSet(u, name, value) ==
  [u EXCEPT !.hasq = TRUE,
            !.query = ParamsToString(ParamsSet(URLSearchParams(u.query), name, value))]

\* u.toString()
URLToString(u) ==
  <<u.protocol>> \o (IF u.host = "" THEN <<>> ELSE <<u.host>>) \o u.path
    \o (IF u.hasq THEN <<"?">> \o u.query ELSE <<>>)

\* location.origin of the page
LocationOrigin == <<"https:", "//page.test">>

\* /^https?:$/i
IsHttpProtocol(p) == p \in {"http:", "https:", "HTTP:", "HTTPS:"}

\* a faulty variant: sanitizeFinalUrl without the protocol test
MutSanitizeNoProtocolCheck(url) ==
  LET u == NewURLBase(url, LocationOrigin)
  IN IF ~u.ok THEN <<>> ELSE URLToString(u)

\* sanitizeFinalUrl: '' unless the URL resolves to http(s)
sanitizeFinalUrl(url) ==
  LET u == NewURLBase(url, LocationOrigin)
  IN IF ~u.ok THEN <<>>
     ELSE IF ~IsHttpProtocol(u.protocol) THEN <<>>
     ELSE URLToString(u)

\* a faulty variant: the pattern without its end anchor
MutSanitizeIdPrefix(v) ==
  IF Len(v) > 0 /\ v[1] \in IdChar THEN v ELSE <<>>

\* sanitizeId: /^[A-Za-z0-9_-]+$/.test(v) ? v : ''
sanitizeId(v) ==
  IF Len(v) > 0 /\ \A i \in 1..Len(v) : v[i] \in IdChar THEN v ELSE <<>>

EscapeChar(c) ==
  CASE c = "&" -> "&amp;"
    [] c = "<" -> "&lt;"
    [] c = ">" -> "&gt;"
    [] c = "\"" -> "&quot;"
    [] c = "'" -> "&#39;"
    [] OTHER -> c

escapeHtml(s) == [i \in 1..Len(s) |-> EscapeChar(s[i])]

-----------------------------------------------------------------------------
(* Dataset and item resolution *)

\* x === id for a string id
StrictEq(x, id) == x.t = "string" /\ x.s = id

\* x && (x.id === id || x.quizId === id)
Matches(x, id) == Truthy(x) /\ (StrictEq(x.id, id) \/ StrictEq(x.quizId, id))

\* Array.prototype.find: the first element that satisfies, or undefined
Find(a, id) ==
  LET hit == {i \in 1..Len(a) : Matches(a[i], id)}
  IN IF hit = {} THEN Undefined ELSE a[CHOOSE i \in hit : \A j \in hit : i <= j]

\* ds[id] of a keyed mapping
Lookup(ds, id) ==
  LET hit == {i \in 1..Len(ds.keys) : ds.keys[i] = id}
  IN IF hit = {} THEN Undefined ELSE ds.vals[CHOOSE i \in hit : TRUE]

\* one entry of x.variants; non-objects map to null
NormalizeVariant(v) ==
  IF v.t = "object"
  THEN [t |-> "object",
        variant |-> JsStr(trim(Coalesce(Coalesce(v.variant, v.name), JsStr(<<>>)).s)),
        param |-> JsStr(trim(Coalesce(Coalesce(v.param, v.params), JsStr(<<>>)).s))]
  ELSE JsNull

RECURSIVE FilterTruthy(_)
FilterTruthy(a) ==
  IF Len(a) = 0 THEN <<>>
  ELSE IF Truthy(Head(a)) THEN <<Head(a)>> \o FilterTruthy(Tail(a))
  ELSE FilterTruthy(Tail(a))

JsArray(a) == [t |-> "array", a |-> a]

normalizeItem(x, id) ==
  [t |-> "object",
   id |-> Or(Or(x.id, x.quizId), JsStr(id)),
   title |-> Or(x.title, JsStr(id)),
   description |-> JsStr(trim(Or(x.description, JsStr(<<>>)).s)),
   url |-> IF x.url.t = "string" THEN x.url ELSE JsStr(<<>>),
   variants |-> IF x.variants.t = "array"
                THEN JsArray(FilterTruthy(
                       [i \in 1..Len(x.variants.a) |-> NormalizeVariant(x.variants.a[i])]))
                ELSE JsArray(<<>>)]

Fallback(id) ==
  [t |-> "object", id |-> JsStr(id), title |-> JsStr(id),
   description |-> JsStr(<<>>), url |-> JsStr(<<>>), variants |-> JsArray(<<>>)]

defaultResolveItem(id, ds) ==
  IF ~Truthy(ds) THEN Fallback(id)
  ELSE IF ds.t = "array"
  THEN LET found == Find(ds.a, id)
       IN IF Truthy(found) THEN normalizeItem(found, id) ELSE Fallback(id)
  ELSE IF ds.t = "object"
  THEN LET direct == Lookup(ds, id)
       IN IF Truthy(direct) THEN normalizeItem(direct, id)
          ELSE LET via == Find(ds.vals, id)
               IN IF Truthy(via) THEN normalizeItem(via, id) ELSE Fallback(id)
  ELSE Fallback(id)

Undeclared == [t |-> "undeclared"]

\* the value the identifier `data` evaluates to under typeof: the lexical
\* binding (const data) when the page declares one, else the global property
DataIdentifier(amb) == IF amb.lex.t # "undeclared" THEN amb.lex ELSE amb.glob

\* resolveDataset(ds), where amb holds the page's `data` bindings.  When the
\* producer throws, the assignment ds = ds() never happens, so ds is still
\* the function.
resolveDataset(ds, amb) ==
  LET r == IF ds.t = "function" /\ ~ds.throws THEN ds.ret ELSE ds
  IN IF Truthy(r) THEN r
     ELSE IF DataIdentifier(amb).t # "undefined" THEN DataIdentifier(amb)
     ELSE IF amb.glob.t # "undefined" THEN amb.glob
     ELSE Undefined

-----------------------------------------------------------------------------
(* Options *)

\* opts.f, with opts possibly not an object
Field(opts, f) == IF opts.t = "object" THEN opts[f] ELSE Undefined

DefaultTarget == <<"main.portal">>
DefaultLoadingMessage == <<"loading">>

normalizeOptions(opts) ==
  [dataset |-> Field(opts, "dataset"),
   resolveItem |-> Field(opts, "resolveItem"),
   target |-> Or(Field(opts, "target"), JsStr(DefaultTarget)).s,
   readFlags |-> Field(opts, "readFlags") # JsBool(FALSE),
   header |-> IF Field(opts, "header").t = "undefined" THEN JsBool(TRUE)
              ELSE Field(opts, "header"),
   loadingMessage |-> Or(Field(opts, "loadingMessage"), JsStr(DefaultLoadingMessage)).s]

-----------------------------------------------------------------------------
(* The document *)

\* selectors document.querySelector can parse; any other throws a SyntaxError
ValidSelector == {<<"main.portal">>, <<"#app">>}

\* the document, timers and console as one value
Doc ==
  [headers |-> headers, roots |-> roots, cards |-> cards, panels |-> panels,
   overlays |-> overlays, timers |-> timers, timerSeq |-> timerSeq,
   consoleLog |-> consoleLog]

\* document.querySelector(target) finds an element; the host page has
\* no element with id app
HasMatch(doc, target) == target = <<"main.portal">> /\ doc.roots > 0

Thrown(doc, msg) == [ok |-> FALSE, doc |-> doc, message |-> msg]
Done(doc) == [ok |-> TRUE, doc |-> doc, message |-> <<>>]

ClickDelay == 60
AutoDelay == 300
FallbackDelay == 1500

\* setTimeout(cb, delay) in task `task`
SetTimeout(doc, kind, url, delay, task) ==
  [doc EXCEPT !.timerSeq = @ + 1,
              !.timers = @ \cup {[id |-> doc.timerSeq + 1, kind |-> kind, url |-> url,
                                  ov |-> Len(doc.overlays), delay |-> delay,
                                  task |-> task]}]

\* a faulty variant: ensureHeader without its querySelector guard
MutEnsureHeaderNoGuard(doc, conf) ==
  [doc EXCEPT !.headers = @ + 1]

\* ensureHeader: one header unless the document has one
ensureHeader(doc, conf) ==
  IF doc.headers > 0 THEN doc ELSE [doc EXCEPT !.headers = @ + 1]

\* showLoading: one overlay unless the document has one; its fallback link
\* is revealed later
showLoading(doc, message, url, task) ==
  IF Len(doc.overlays) > 0 THEN doc
  ELSE LET d == [doc EXCEPT !.overlays =
                   Append(@, [message |-> message, href |-> url, linkShown |-> FALSE])]
       IN IF Len(url) > 0
          THEN SetTimeout(d, "reveal", url, FallbackDelay, task)
          ELSE d

\* renderError: the panel goes into the target root, or into body
renderError(doc, conf, kind, detail) ==
  IF conf.target \notin ValidSelector
  THEN Thrown(doc, <<"SyntaxError">>)
  ELSE Done([doc EXCEPT !.panels =
               Append(@, [kind |-> kind, detail |-> detail,
                          parent |-> IF HasMatch(doc, conf.target)
                                     THEN "root" ELSE "body"])])

\* getRoot + renderCard: a main.portal is created when the target matches
\* nothing
renderCard(doc, conf, card) ==
  IF conf.target \notin ValidSelector
  THEN Thrown(doc, <<"SyntaxError">>)
  ELSE Done([doc EXCEPT !.roots = IF HasMatch(doc, conf.target) THEN @ ELSE @ + 1,
                        !.cards = Append(@, card)])

-----------------------------------------------------------------------------
(* Interlink.render *)

\* String(x)
ToStr(x) == IF x.t = "string" THEN x.s ELSE <<x.t>>

\* what one render call went through, for the properties below
NoTrace ==
  [idRaw |-> JsNull, id |-> <<>>, dsResolved |-> FALSE, dataset |-> Undefined,
   resolver |-> "none", resolverArgs |-> <<>>, item |-> Undefined,
   urlRaw |-> <<>>, variantRaw |-> <<>>, warned |-> FALSE, finalUrl |-> <<>>,
   newtab |-> FALSE, auto |-> FALSE]

\* the outcome of a piece of the try block, with the trace so far
Result(r, tr) == [out |-> r, tr |-> tr]

\* item.variants.some(v => v && String(v.variant) === variantRaw), or true
\* without a list
Allowed(item, variantRaw) ==
  IF item.variants.t = "array" /\ Len(item.variants.a) > 0
  THEN \E i \in 1..Len(item.variants.a) :
         /\ Truthy(item.variants.a[i])
         /\ ToStr(item.variants.a[i].variant) = variantRaw
  ELSE TRUE

\* a faulty variant: searchParams.append in place of set
MutSetVariantAppend(u, variantRaw) ==
  IF ~u.ok THEN [ok |-> FALSE, s |-> <<>>]
  ELSE [ok |-> TRUE,
        s |-> URLToString([u EXCEPT !.hasq = TRUE,
                !.query = ParamsToString(Append(URLSearchParams(u.query),
                                                <<<<"variant">>, variantRaw>>))])]

\* u.searchParams.set('variant', variantRaw); urlStr = u.toString()
SetVariant(u, variantRaw) ==
  IF ~u.ok THEN [ok |-> FALSE, s |-> <<>>]
  ELSE [ok |-> TRUE, s |-> URLToString(SearchParamsSet(u, <<"variant">>, variantRaw))]

\* step 5: const u = new URL(urlStr), then the above
ApplyVariant(urlStr, variantRaw) == SetVariant(NewURL(urlStr), variantRaw)

\* conf.readFlags ? (params.get(name) || '0') === '1' : false
ReadFlag(conf, params, name) ==
  conf.readFlags /\ Or(ParamsGet(params, <<name>>), JsStr(<<"0">>)).s = <<"1">>

\* the fullwidth parentheses put around the variant label
LabelOpen == "(("
LabelClose == "))"

\* (item.title || item.id) + (variantLabel ? `(variantLabel)` : '')
DisplayTitle(item, variantLabel) ==
  ToStr(Or(item.title, item.id))
    \o (IF Len(variantLabel) > 0
        THEN <<LabelOpen>> \o variantLabel \o <<LabelClose>> ELSE <<>>)

\* a faulty variant: no navigation scheduled when the overlay is already shown
MutAutoNavigateGuarded(rc, conf, finalUrl, auto, task) ==
  IF rc.ok /\ auto /\ Len(rc.doc.overlays) = 0
  THEN Done(SetTimeout(showLoading(rc.doc, conf.loadingMessage, finalUrl, task),
                       "assign", finalUrl, AutoDelay, task))
  ELSE rc

\* step 9, after renderCard returned rc
AutoNavigate(rc, conf, finalUrl, auto, task) ==
  IF rc.ok /\ auto
  THEN Done(SetTimeout(showLoading(rc.doc, conf.loadingMessage, finalUrl, task),
                       "assign", finalUrl, AutoDelay, task))
  ELSE rc

\* steps 6-9 with the URL sanitized and the flags read
Present(doc, conf, item, finalUrl, newtab, auto, variantLabel, task, tr) ==
  IF Len(finalUrl) = 0
  THEN Result(renderError(doc, conf, "invalid-url", <<>>), tr)
  ELSE Result(
         AutoNavigate(
           renderCard(doc, conf,
                      [title |-> DisplayTitle(item, variantLabel),
                       desc |-> ToStr(Or(item.description, JsStr(<<>>))),
                       href |-> finalUrl, newtab |-> newtab,
                       loadingMessage |-> conf.loadingMessage]),
           conf, finalUrl, auto, task),
         [tr EXCEPT !.finalUrl = finalUrl, !.newtab = newtab, !.auto = auto])

\* steps 6-9, once the URL string is built
Finish(doc, conf, params, item, urlStr, variantLabel, task, tr) ==
  Present(doc, conf, item, sanitizeFinalUrl(urlStr),
          ReadFlag(conf, params, "newtab"), ReadFlag(conf, params, "auto"),
          variantLabel, task, tr)

\* console.warn('[Interlink] variant not in list:', ...) when warn
Warned(doc, warn, variantRaw) ==
  IF warn THEN [doc EXCEPT !.consoleLog = Append(@, <<"warn", variantRaw>>)] ELSE doc

\* step 5 with the allow-list checked and the variant applied (av)
Varied(doc, conf, params, item, variantRaw, warn, av, task, tr) ==
  IF ~av.ok
  THEN Result(Thrown(Warned(doc, warn, variantRaw), <<"Invalid URL">>),
              [tr EXCEPT !.warned = warn])
  ELSE Finish(Warned(doc, warn, variantRaw), conf, params, item, av.s, variantRaw,
              task, [tr EXCEPT !.warned = warn])

\* step 4: urlRaw.replace(/{id}/g, encodeURIComponent(item.id))
Substitute(urlRaw, item) ==
  ReplaceAll(urlRaw, "{id}", encodeURIComponent(ToStr(item.id)))

\* a faulty variant: the override applied before the url is required
MutBuildVariantFirst(doc, conf, params, item, urlRaw, variantRaw, task, tr) ==
  IF Len(variantRaw) > 0
  THEN Varied(doc, conf, params, item, variantRaw, ~Allowed(item, variantRaw),
              ApplyVariant(Substitute(urlRaw, item), variantRaw), task, tr)
  ELSE IF Len(urlRaw) = 0
  THEN Result(renderError(doc, conf, "not-openable", <<>>), tr)
  ELSE Finish(doc, conf, params, item, Substitute(urlRaw, item), <<>>, task, tr)

\* steps 3-5 with urlRaw and variantRaw read
Build(doc, conf, params, item, urlRaw, variantRaw, task, tr) ==
  IF Len(urlRaw) = 0
  THEN Result(renderError(doc, conf, "not-openable", <<>>), tr)
  ELSE IF Len(variantRaw) = 0
  THEN Finish(doc, conf, params, item, Substitute(urlRaw, item), <<>>, task, tr)
  ELSE Varied(doc, conf, params, item, variantRaw, ~Allowed(item, variantRaw),
              ApplyVariant(Substitute(urlRaw, item), variantRaw), task, tr)

\* (item && typeof item.url === 'string') ? item.url.trim() : ''
UrlRaw(item) ==
  IF Truthy(item) /\ item.url.t = "string" THEN trim(item.url.s) ELSE <<>>

\* (params.get('variant') || params.get('v') || '').trim()
VariantRaw(params) ==
  trim(Or(Or(ParamsGet(params, <<"variant">>), ParamsGet(params, <<"v">>)),
          JsStr(<<>>)).s)

\* steps 3-5, once the item is resolved
Resolved(doc, conf, params, item, task, tr) ==
  Build(doc, conf, params, item, UrlRaw(item), VariantRaw(params), task,
        [tr EXCEPT !.item = item, !.urlRaw = UrlRaw(item),
                   !.variantRaw = VariantRaw(params)])

\* step 2 with the dataset resolved: the caller's resolveItem or the default
Located(doc, conf, params, id, dataset, task, tr) ==
  IF conf.resolveItem.t = "function"
  THEN IF conf.resolveItem.throws
       THEN Result(Thrown(doc, conf.resolveItem.message),
                   [tr EXCEPT !.dsResolved = TRUE, !.dataset = dataset,
                              !.resolver = "custom", !.resolverArgs = <<id>>])
       ELSE Resolved(doc, conf, params, conf.resolveItem.ret, task,
                     [tr EXCEPT !.dsResolved = TRUE, !.dataset = dataset,
                                !.resolver = "custom", !.resolverArgs = <<id>>])
  ELSE Resolved(doc, conf, params, defaultResolveItem(id, dataset), task,
                [tr EXCEPT !.dsResolved = TRUE, !.dataset = dataset,
                           !.resolver = "default", !.resolverArgs = <<id>>])

\* steps 1-2 with the id read
Identified(doc, conf, params, idRaw, id, task) ==
  IF Len(id) = 0
  THEN Result(renderError(doc, conf, "missing-id", <<>>),
              [NoTrace EXCEPT !.idRaw = idRaw])
  ELSE Located(doc, conf, params, id, resolveDataset(conf.dataset, ambient), task,
               [NoTrace EXCEPT !.idRaw = idRaw, !.id = id])

\* sanitizeId((params.get('id') || '').trim())
ReadId(params) == sanitizeId(trim(Or(ParamsGet(params, <<"id">>), JsStr(<<>>)).s))

\* the try block from `const params` on
Parsed(doc, conf, params, task) ==
  Identified(doc, conf, params, ParamsGet(params, <<"id">>), ReadId(params), task)

\* the body of the try block of render
TryBody(doc, conf, task) ==
  Parsed(IF conf.header # JsBool(FALSE) THEN ensureHeader(doc, conf) ELSE doc,
         conf, URLSearchParams(search), task)

\* a faulty variant: no catch clause, the exception reaches the caller
MutCatchRethrow(res, opts) ==
  [doc |-> res.doc, propagated |-> ~res.ok]

\* console.error(e) after renderError threw in the catch clause (r2)
Recover(res, r2) ==
  IF r2.ok THEN [doc |-> r2.doc, propagated |-> FALSE]
  ELSE [doc |-> [res.doc EXCEPT !.consoleLog = Append(@, <<"error", res.message>>)],
        propagated |-> FALSE]

\* the catch clause of render: an error panel with the escaped message; when
\* that throws too, console.error
Catch(res, opts) ==
  IF res.ok THEN [doc |-> res.doc, propagated |-> FALSE]
  ELSE Recover(res, renderError(res.doc, normalizeOptions(opts), "runtime-error",
                                escapeHtml(res.message)))

\* the document after a step, written back to the variables
SetDoc(doc) ==
  /\ headers' = doc.headers
  /\ roots' = doc.roots
  /\ cards' = doc.cards
  /\ panels' = doc.panels
  /\ overlays' = doc.overlays
  /\ timers' = doc.timers
  /\ timerSeq' = doc.timerSeq
  /\ consoleLog' = doc.consoleLog

\* the call has run: res is the try block's result, end what the catch
\* clause left
Commit(opts, res, end) ==
  /\ ~unloaded
  /\ SetDoc(end.doc)
  /\ calls' = calls + 1
  /\ req' = [req EXCEPT !.pending = FALSE]
  /\ last' = [opts |-> opts, tr |-> res.tr, threw |-> ~res.out.ok,
              message |-> res.out.message, propagated |-> end.propagated,
              newPanels |-> SubSeq(end.doc.panels, Len(panels) + 1, Len(end.doc.panels)),
              newCards |-> SubSeq(end.doc.cards, Len(cards) + 1, Len(end.doc.cards)),
              newOverlays |-> Len(end.doc.overlays) - Len(overlays),
              newTimers |-> end.doc.timers \ timers]
  /\ UNCHANGED <<search, ambient, fired, assigned, opened, navigating,
                 unloaded, clicks, fnIn, fnOut>>

Caught(opts, res) == Commit(opts, res, Catch(res.out, opts))

\* Interlink.render(opts)
Render(opts) == Caught(opts, TryBody(Doc, normalizeOptions(opts), calls + clicks + 1))

-----------------------------------------------------------------------------
(* Clicks, timers, unload *)

MaxRenders == 2
MaxClicks == 1

\* the click listener of a card link.  A new-tab link or a modified click
\* returns at once and the browser follows the href elsewhere; otherwise the
\* default is prevented, the overlay shown and the navigation deferred.
Click(i, modified) ==
  LET card == cards[i]
      task == calls + clicks + 1
  IN /\ ~unloaded
     /\ clicks' = clicks + 1
     /\ IF card.newtab \/ modified
        THEN /\ opened' = opened \cup {card.href}
             /\ UNCHANGED <<headers, roots, cards, panels, overlays, timers,
                            timerSeq, consoleLog>>
        ELSE /\ SetDoc(SetTimeout(showLoading(Doc, card.loadingMessage, card.href, task),
                                  "assign", card.href, ClickDelay, task))
             /\ UNCHANGED opened
     /\ UNCHANGED <<search, ambient, fired, assigned, navigating, unloaded, calls,
                    last, req, fnIn, fnOut>>

\* a click on the revealed fallback link of the overlay: a plain link
ClickFallback(i) ==
  /\ ~unloaded
  /\ overlays[i].linkShown
  /\ opened' = opened \cup {overlays[i].href}
  /\ navigating' = TRUE
  /\ UNCHANGED <<search, ambient, headers, roots, cards, panels, overlays, timers,
                 timerSeq, fired, assigned, unloaded, consoleLog, calls, clicks,
                 last, req, fnIn, fnOut>>

\* t cannot run yet: a pending timer is due no later (set earlier with a
\* delay no longer, or set in the same task with a shorter delay)
Blocked(t) ==
  \E o \in timers :
    \/ o.id < t.id /\ o.delay <= t.delay
    \/ o.task = t.task /\ o.delay < t.delay

\* the deferred navigation: location.assign(url)
FireAssign(t) ==
  /\ ~unloaded
  /\ t.kind = "assign"
  /\ ~Blocked(t)
  /\ timers' = timers \ {t}
  /\ fired' = fired \cup {t.id}
  /\ assigned' = Append(assigned, t.url)
  /\ navigating' = TRUE
  /\ UNCHANGED <<search, ambient, headers, roots, cards, panels, overlays,
                 timerSeq, opened, unloaded, consoleLog, calls, clicks, last,
                 req, fnIn, fnOut>>

\* the fallback link of the overlay becomes visible
FireReveal(t) ==
  /\ ~unloaded
  /\ t.kind = "reveal"
  /\ ~Blocked(t)
  /\ timers' = timers \ {t}
  /\ fired' = fired \cup {t.id}
  /\ overlays' = [overlays EXCEPT ![t.ov].linkShown = TRUE]
  /\ UNCHANGED <<search, ambient, headers, roots, cards, panels, timerSeq,
                 assigned, opened, navigating, unloaded, consoleLog, calls,
                 clicks, last, req, fnIn, fnOut>>

\* the started navigation replaces the page: nothing of it runs any more
Unload ==
  /\ navigating
  /\ ~unloaded
  /\ unloaded' = TRUE
  /\ UNCHANGED <<search, ambient, headers, roots, cards, panels, overlays, timers,
                 timerSeq, fired, assigned, opened, navigating, consoleLog, calls,
                 clicks, last, req, fnIn, fnOut>>

-----------------------------------------------------------------------------
(* The pages, datasets and options the runs draw from *)

Absent == JsNull

Piece(name, x) ==
  IF x.t = "null" THEN <<>> ELSE <<<<name, "=">> \o FormEncode(x.s)>>

\* the query string "?id=..&variant=..&v=..&newtab=..&auto=.." with the
\* absent parameters left out
Query(i, va, v, nt, au) ==
  LET ps == Piece("id", i) \o Piece("variant", va) \o Piece("v", v)
              \o Piece("newtab", nt) \o Piece("auto", au)
  IN IF Len(ps) = 0 THEN <<>> ELSE <<"?">> \o Join(ps, "&")

Rec(id, quizId, title, url, variants) ==
  [t |-> "object", id |-> id, quizId |-> quizId, title |-> title,
   description |-> JsStr(<<" ", "d", " ">>), url |-> url, variants |-> variants]

RawVariant(variant, name) ==
  [t |-> "object", variant |-> variant, name |-> name,
   param |-> Undefined, params |-> JsStr(<<"k", "=", "1">>)]

HttpsUrl == <<"https:", "//x.test", "/q", "?", "id", "=", "{id}",
              "&", "variant", "=", "o", "&", "variant", "=", "p">>
HttpUrl == <<"HTTP:", "//x.test", "/q">>
JsUrl == <<"javascript:", "alert(1)">>
FtpUrl == <<"ftp:", "//x.test", "/q">>
RelUrl == <<"/quiz", "?", "id", "=", "{id}">>
RelFileUrl == <<"quiz.html">>
BadUrl == <<"https:", "//">>

ItemA == Rec(JsStr(<<"a">>), Undefined, JsStr(<<"Q", "A">>), JsStr(HttpsUrl),
             JsArray(<<RawVariant(JsStr(<<"s", "1">>), Undefined), JsNull,
                       RawVariant(Undefined, JsStr(<<" ", "s", "2">>))>>))
ItemB == Rec(Undefined, JsStr(<<"b">>), Undefined, JsStr(<<" ">> \o HttpUrl), Undefined)
ItemJ == Rec(JsStr(<<"j">>), Undefined, Undefined, JsStr(JsUrl), Undefined)
ItemF == Rec(JsStr(<<"f">>), Undefined, Undefined, JsStr(FtpUrl), Undefined)
ItemR == Rec(JsStr(<<"r">>), Undefined, Undefined, JsStr(RelUrl), Undefined)
ItemH == Rec(JsStr(<<"h">>), Undefined, Undefined, JsStr(RelFileUrl), Undefined)
ItemM == Rec(JsStr(<<"m">>), Undefined, Undefined, JsStr(BadUrl), Undefined)
ItemE == Rec(JsStr(<<"e">>), Undefined, Undefined, JsStr(<<>>), Undefined)
ItemW == Rec(JsStr(<<"w">>), Undefined, Undefined, JsStr(<<" ", " ">>), Undefined)
ItemN == Rec(JsStr(<<"n">>), Undefined, Undefined, JsNum, Undefined)
ItemU == Rec(JsStr(<<"u">>), Undefined, Undefined, Undefined, Undefined)

AllItems == <<JsNull, ItemA, ItemB, ItemJ, ItemF, ItemR, ItemH, ItemM, ItemE,
              ItemW, ItemN, ItemU>>

ArrayDs == JsArray(AllItems)

KeyedDs ==
  [t |-> "object",
   keys |-> [i \in 1..(Len(AllItems) - 1) |->
               ToStr(Or(AllItems[i + 1].id, AllItems[i + 1].quizId))],
   vals |-> Tail(AllItems)]

Producer(ret) == [t |-> "function", throws |-> FALSE, ret |-> ret]
ThrowingProducer == [t |-> "function", throws |-> TRUE, ret |-> Undefined]

\* a caller's resolveItem that returns item, and one that throws
Resolver(item) ==
  [t |-> "function", throws |-> FALSE, message |-> <<>>, ret |-> item]
ThrowingResolver ==
  [t |-> "function", throws |-> TRUE, message |-> <<"<", "b", ">">>, ret |-> JsNull]

Options(dataset, resolveItem, target, readFlags, header) ==
  [t |-> "object", dataset |-> dataset, resolveItem |-> resolveItem,
   target |-> target, readFlags |-> readFlags, header |-> header,
   loadingMessage |-> Undefined]

NoData == [lex |-> Undeclared, glob |-> Undefined]
ConstData == [lex |-> ArrayDs, glob |-> Undefined]
WindowData == [lex |-> Undeclared, glob |-> KeyedDs]

NoReq == [pending |-> FALSE, opts |-> Undefined]
NotRun == [f |-> "none"]

\* a page before any call
Fresh ==
  /\ headers = 0
  /\ roots \in {0, 1}
  /\ cards = <<>>
  /\ panels = <<>>
  /\ overlays = <<>>
  /\ timers = {}
  /\ timerSeq = 0
  /\ fired = {}
  /\ assigned = <<>>
  /\ opened = {}
  /\ navigating = FALSE
  /\ unloaded = FALSE
  /\ consoleLog = <<>>
  /\ calls = 0
  /\ clicks = 0
  /\ last = [opts |-> Undefined, tr |-> NoTrace, threw |-> FALSE, message |-> <<>>,
             propagated |-> FALSE, newPanels |-> <<>>, newCards |-> <<>>,
             newOverlays |-> 0, newTimers |-> {}]

-----------------------------------------------------------------------------
(* A page on which scripts call render any number of times *)

PageDs == JsArray(<<JsNull, ItemA, ItemJ, ItemR>>)

PageIds == {Absent, JsStr(<<"a">>), JsStr(<<"j">>), JsStr(<<"r">>)}
PageVariants == {Absent, JsStr(<<"s", "1">>)}
Flag == {Absent, JsStr(<<"1">>)}

PageSearches ==
  {Query(i, va, Absent, nt, au) :
     i \in PageIds, va \in PageVariants, nt \in Flag, au \in Flag}

\* an item a caller's resolveItem returns: already in canonical shape
ForeignItem == normalizeItem(ItemF, <<"f">>)

PageOptions ==
  {Options(ds, Undefined, Undefined, rf, hd) :
     ds \in {Undefined, ThrowingProducer},
     rf \in {Undefined, JsBool(FALSE)},
     hd \in {Undefined, JsBool(FALSE)}}
  \cup {Options(Undefined, ThrowingResolver, Undefined, Undefined, Undefined),
        Options(Undefined, Resolver(ForeignItem), Undefined, Undefined, Undefined)}

Init ==
  /\ Fresh
  /\ search \in PageSearches
  /\ ambient \in {NoData, [lex |-> PageDs, glob |-> Undefined]}
  /\ req = NoReq
  /\ fnIn = NotRun
  /\ fnOut = NotRun

RenderAny ==
  /\ calls < MaxRenders
  /\ \E opts \in PageOptions : Render(opts)

ClickAny ==
  /\ clicks < MaxClicks
  /\ \E i \in 1..Len(cards), modified \in BOOLEAN : Click(i, modified)

ClickFallbackAny == \E i \in 1..Len(overlays) : ClickFallback(i)

FireAssignAny == \E t \in timers : FireAssign(t)

FireRevealAny == \E t \in timers : FireReveal(t)

Next ==
  \/ RenderAny
  \/ ClickAny
  \/ ClickFallbackAny
  \/ FireAssignAny
  \/ FireRevealAny
  \/ Unload

Spec == Init /\ [][Next]_vars

\* the ids setTimeout can hand out: one callback per call and per click, and
\* one for the only overlay
TimerId == 1..(MaxRenders + MaxClicks + 1)

\* a timer that can run does run: the event loop runs every due callback
\* for as long as the page lives
TimersRun ==
  \A k \in TimerId :
    /\ WF_vars(\E t \in timers : t.id = k /\ FireAssign(t))
    /\ WF_vars(\E t \in timers : t.id = k /\ FireReveal(t))

\* the page of the liveness runs: it has its main.portal and its dataset, and
\* its query carries neither override nor newtab
LiveInit ==
  /\ Init
  /\ roots = 1
  /\ ambient.lex = PageDs
  /\ ParamsGet(URLSearchParams(search), <<"variant">>) = JsNull
  /\ ParamsGet(URLSearchParams(search), <<"newtab">>) = JsNull

LiveSpec == LiveInit /\ [][Next]_vars /\ TimersRun

-----------------------------------------------------------------------------
(* A page whose script calls render once *)

CallIds ==
  {Absent, JsStr(<<>>), JsStr(<<" ">>), JsStr(<<" ", "a">>), JsStr(<<"a", "<">>),
   JsStr(<<"a">>), JsStr(<<"b">>), JsStr(<<"j">>), JsStr(<<"r">>), JsStr(<<"h">>),
   JsStr(<<"m">>), JsStr(<<"e">>), JsStr(<<"w">>), JsStr(<<"n">>), JsStr(<<"u">>),
   JsStr(<<"z">>)}

CallVariants ==
  {Absent, JsStr(<<>>), JsStr(<<" ">>), JsStr(<<"s", "1">>), JsStr(<<" ", "s", "1">>),
   JsStr(<<"k", "=", "1">>)}

CallShortVariants == {Absent, JsStr(<<"s", "2">>)}

CallSearches ==
  {Query(i, va, v, nt, au) :
     i \in CallIds, va \in CallVariants, v \in CallShortVariants,
     nt \in Flag, au \in Flag}

CallOptions ==
  {Options(ds, ri, Undefined, rf, Undefined) :
     ds \in {Undefined, KeyedDs, Producer(ArrayDs)},
     ri \in {Undefined, Resolver(JsNull), Resolver(ForeignItem)},
     rf \in {Undefined, JsBool(FALSE)}}

CallInit ==
  /\ Fresh
  /\ search \in CallSearches
  /\ ambient \in {NoData, ConstData}
  /\ req \in {[pending |-> TRUE, opts |-> o] : o \in CallOptions}
  /\ fnIn = NotRun
  /\ fnOut = NotRun

RenderReq ==
  /\ req.pending
  /\ Render(req.opts)

CallNext ==
  \/ RenderReq
  \/ ClickAny
  \/ ClickFallbackAny
  \/ FireAssignAny
  \/ FireRevealAny
  \/ Unload

CallSpec == CallInit /\ [][CallNext]_vars

-----------------------------------------------------------------------------
(* One call in which something throws *)

FaultSearches ==
  {Query(i, va, Absent, Absent, au) :
     i \in {Absent, JsStr(<<"a">>), JsStr(<<"r">>), JsStr(<<"m">>)},
     va \in {Absent, JsStr(<<"s", "1">>)}, au \in Flag}

FaultOptions ==
  {Options(ds, ri, tg, Undefined, hd) :
     ds \in {ArrayDs, ThrowingProducer},
     ri \in {Undefined, ThrowingResolver, Resolver(normalizeItem(ItemA, <<"a">>))},
     tg \in {Undefined, JsStr(<<"#app">>), JsStr(<<"###">>)},
     hd \in {Undefined, JsBool(FALSE)}}

FaultInit ==
  /\ Fresh
  /\ search \in FaultSearches
  /\ ambient \in {NoData, ConstData}
  /\ req \in {[pending |-> TRUE, opts |-> o] : o \in FaultOptions}
  /\ fnIn = NotRun
  /\ fnOut = NotRun

FaultSpec == FaultInit /\ [][CallNext]_vars

-----------------------------------------------------------------------------
(* The helpers on their own *)

MaxRecords == 2

HelperIdValues == {Undefined, JsStr(<<"a">>), JsStr(<<"z">>)}

HelperRecords ==
  {Rec(i, q, Undefined, JsStr(HttpUrl), Undefined) :
     i \in HelperIdValues, q \in HelperIdValues}

SeqsUpTo(S, n) == UNION {[1..k -> S] : k \in 0..n}

HelperArrays == {JsArray(a) : a \in SeqsUpTo(HelperRecords \cup {JsNull}, MaxRecords)}

HelperKeys == {<<"a">>, <<"k">>, <<"z">>}

\* keyed mappings: distinct keys in insertion order
HelperMappings ==
  {[t |-> "object", keys |-> ks, vals |-> vs] :
     <<ks, vs>> \in
       {kv \in SeqsUpTo(HelperKeys, MaxRecords) \X SeqsUpTo(HelperRecords, MaxRecords) :
          /\ Len(kv[1]) = Len(kv[2])
          /\ \A i, j \in 1..Len(kv[1]) : i # j => kv[1][i] # kv[1][j]}}

HelperDatasets ==
  {Undefined, ArrayDs, JsArray(<<>>), Producer(ArrayDs), Producer(Undefined),
   Producer(JsNull), ThrowingProducer}

HelperAmbients ==
  {NoData, ConstData, WindowData,
   [lex |-> Undefined, glob |-> KeyedDs], [lex |-> JsNull, glob |-> KeyedDs]}

HelperInit ==
  /\ Fresh
  /\ search = <<>>
  /\ ambient = NoData
  /\ req = NoReq
  /\ fnOut = NotRun
  /\ fnIn \in
       {[f |-> "defaultResolveItem", id |-> <<"a">>, ds |-> ds] :
          ds \in HelperArrays \cup HelperMappings \cup {Undefined}}
       \cup {[f |-> "resolveDataset", ds |-> ds, amb |-> amb] :
               ds \in HelperDatasets, amb \in HelperAmbients}

Idle ==
  UNCHANGED <<search, ambient, headers, roots, cards, panels, overlays, timers,
              timerSeq, fired, assigned, opened, navigating, unloaded,
              consoleLog, calls, clicks, last, req, fnIn>>

CallDefaultResolveItem ==
  /\ fnIn.f = "defaultResolveItem"
  /\ fnOut = NotRun
  /\ fnOut' = [f |-> fnIn.f, ret |-> defaultResolveItem(fnIn.id, fnIn.ds)]
  /\ Idle

CallResolveDataset ==
  /\ fnIn.f = "resolveDataset"
  /\ fnOut = NotRun
  /\ fnOut' = [f |-> fnIn.f, ret |-> resolveDataset(fnIn.ds, fnIn.amb)]
  /\ Idle

HelperNext ==
  \/ CallDefaultResolveItem
  \/ CallResolveDataset

HelperSpec == HelperInit /\ [][HelperNext]_vars

-----------------------------------------------------------------------------
(* Properties *)

\* the string is a serialized URL whose protocol is http or https
HttpString(s) == Len(s) > 0 /\ s[1] \in {"http:", "https:"}

\* the string starts with a scheme that is not http(s), in any case
OtherProtocol(s) ==
  Len(s) > 0 /\ s[1] \in SchemeTok /\ s[1] \notin {"http:", "https:", "HTTP:", "HTTPS:"}

\* the string is a relative reference: it has no scheme
Relative(s) == Len(s) > 0 /\ s[1] \notin SchemeTok

PanelKinds == [i \in 1..Len(last.newPanels) |-> last.newPanels[i].kind]

\* the last call left one error panel of this kind and nothing else
OnlyPanel(kind) ==
  /\ PanelKinds = <<kind>>
  /\ last.newCards = <<>>
  /\ last.newOverlays = 0
  /\ last.newTimers = {}

\* the page's query asks for automatic navigation, and the call reads flags
AutoRequested == ParamsGet(URLSearchParams(search), <<"auto">>) = JsStr(<<"1">>)
FlagsRead == Field(last.opts, "readFlags") # JsBool(FALSE)

\* the value matches ^[A-Za-z0-9_-]+$ as a whole
FullMatch(x) ==
  /\ x.t = "string"
  /\ Len(x.s) > 0
  /\ \A i \in 1..Len(x.s) : x.s[i] \in IdChar

\* the last call treated the identifier as absent
TreatedAsAbsent ==
  /\ OnlyPanel("missing-id")
  /\ ~last.tr.dsResolved
  /\ last.tr.resolver = "none"
  /\ last.tr.resolverArgs = <<>>

\* C1: every URL passed to location.assign, set as a card link's href (and
\* followed from it) or as the overlay's fallback link is http or https; an
\* item url of another protocol gives the invalid-URL panel, no card and no
\* scheduled navigation.
C1_OnlyHttpReachesNavigation ==
  /\ \A i \in 1..Len(assigned) : HttpString(assigned[i])
  /\ \A i \in 1..Len(cards) : HttpString(cards[i].href)
  /\ \A i \in 1..Len(overlays) : HttpString(overlays[i].href)
  /\ \A u \in opened : HttpString(u)
  /\ \A t \in timers : HttpString(t.url)
  /\ (calls > 0 /\ OtherProtocol(last.tr.urlRaw)) => OnlyPanel("invalid-url")

\* C1, reached: a navigation fired, a card is on the page, and the last call got an item url of another protocol
C1_Witness ==
  /\ Len(assigned) > 0
  /\ Len(cards) > 0
  /\ OtherProtocol(last.tr.urlRaw)
  /\ OnlyPanel("invalid-url")

\* C7: after any calls of render and clicks on card links the document holds
\* at most one header block and at most one loading overlay.
C7_OneHeaderOneOverlay == headers <= 1 /\ Len(overlays) <= 1

\* C7, reached: two calls with auto=1 and a click have all asked for the header and the overlay
C7_Witness ==
  /\ calls = 2
  /\ clicks = 1
  /\ timerSeq = 4
  /\ headers = 1
  /\ Len(overlays) = 1

\* what a call schedules: with auto=1 read, a rendered card comes with a
\* navigation to its URL after AutoDelay; without, none
C10_Scheduled ==
  calls > 0 =>
    /\ (last.newCards # <<>> /\ AutoRequested /\ FlagsRead) =>
         \E t \in last.newTimers :
           t.kind = "assign" /\ t.url = last.newCards[1].href /\ t.delay = AutoDelay
    /\ (~AutoRequested \/ ~FlagsRead) =>
         \A t \in last.newTimers : t.kind # "assign"

\* a pending navigation stays pending, or is the one that fires
C10_Kept ==
  \A t \in timers :
    t.kind = "assign" =>
      \/ t \in timers'
      \/ t.id \in fired' /\ assigned' = Append(assigned, t.url)

\* C10: a call that renders the card with auto=1 and readFlags enabled
\* schedules a navigation to its final URL; a scheduled navigation is never
\* cancelled or replaced and eventually fires unless the page unloads;
\* without auto=1 or with readFlags false a call schedules none.
C10_AutoNavigationFires ==
  /\ []C10_Scheduled
  /\ [][C10_Kept]_vars
  /\ \A k \in TimerId :
       (\E t \in timers : t.id = k /\ t.kind = "assign") ~> (k \in fired \/ unloaded)

\* C10, reached: the navigation scheduled by the second call fired after a click and another call
C10_Witness ==
  /\ calls = 2
  /\ clicks = 1
  /\ \E t \in last.newTimers : t.kind = "assign" /\ t.id \in fired
  /\ assigned[Len(assigned)] = last.tr.finalUrl
  /\ ~unloaded

\* C2 as stated: an id value that does not match the pattern as a whole is
\* treated as absent.
C2_UnmatchedIdIsAbsent ==
  (calls > 0 /\ ~FullMatch(last.tr.idRaw)) => TreatedAsAbsent

\* C2, amended: an id value that, once trimmed, does not match the pattern
\* as a whole is treated as absent, and only matching identifiers are
\* passed to the resolvers.
C2_TrimmedIdMustMatch ==
  calls > 0 =>
    /\ ~FullMatch(JsStr(trim(Or(last.tr.idRaw, JsStr(<<>>)).s))) => TreatedAsAbsent
    /\ \A i \in 1..Len(last.tr.resolverArgs) : FullMatch(JsStr(last.tr.resolverArgs[i]))

\* C2, reached: a call whose id value holds a character outside the pattern
C2_Witness ==
  /\ calls = 1
  /\ last.tr.idRaw = JsStr(<<"a", "<">>)
  /\ TreatedAsAbsent

\* the resolved item has no url to open
EmptyUrl(item) ==
  \/ ~Truthy(item)
  \/ item.url.t # "string"
  \/ \A i \in 1..Len(item.url.s) : IsWhite(item.url.s[i])

\* C4: a resolved item whose url is empty gives the "not openable" panel
\* whatever variant, v, newtab and auto are: no final URL, no card, no
\* overlay, no scheduled navigation.
C4_EmptyUrlNotOpenable ==
  (calls > 0 /\ last.tr.resolver # "none" /\ EmptyUrl(last.tr.item)) =>
    /\ OnlyPanel("not-openable")
    /\ last.tr.finalUrl = <<>>

\* C4, reached: a call for an item without url, with an override and auto=1
C4_Witness ==
  /\ calls = 1
  /\ last.tr.id = <<"n">>
  /\ Len(last.tr.variantRaw) > 0
  /\ AutoRequested /\ FlagsRead
  /\ OnlyPanel("not-openable")

\* the override of the query, as given
RawOverride ==
  Or(Or(ParamsGet(URLSearchParams(search), <<"variant">>),
        ParamsGet(URLSearchParams(search), <<"v">>)), JsStr(<<>>)).s

\* the values of the variant parameters of a URL, in order
VariantValues(url) ==
  LET ps == URLSearchParams(NewURLBase(url, LocationOrigin).query)
      RECURSIVE Pick(_)
      Pick(i) == IF i > Len(ps) THEN <<>>
                 ELSE (IF ps[i][1] = <<"variant">> THEN <<ps[i][2]>> ELSE <<>>)
                        \o Pick(i + 1)
  IN Pick(1)

EndsWith(s, suffix) ==
  /\ Len(s) >= Len(suffix)
  /\ SubSeq(s, Len(s) - Len(suffix) + 1, Len(s)) = suffix

\* the last call rendered the card for override x
CardWith(x) ==
  /\ Len(last.newCards) = 1
  /\ PanelKinds = <<>>
  /\ VariantValues(last.newCards[1].href) = <<x>>
  /\ EndsWith(last.newCards[1].title, <<LabelOpen>> \o x \o <<LabelClose>>)

\* the last call rendered the card with the url's own parameters, no suffix
CardPlain ==
  /\ Len(last.newCards) = 1
  /\ PanelKinds = <<>>
  /\ VariantValues(last.newCards[1].href) = VariantValues(last.tr.urlRaw)
  /\ last.newCards[1].title = ToStr(Or(last.tr.item.title, last.tr.item.id))

\* the item has a url that opens when no override is given
Openable ==
  /\ last.tr.resolver # "none"
  /\ Len(last.tr.urlRaw) > 0
  /\ NewURLBase(last.tr.urlRaw, LocationOrigin).ok
  /\ NewURLBase(last.tr.urlRaw, LocationOrigin).protocol \in {"http:", "https:"}

\* the item's url is an absolute http(s) URL
AbsoluteHttp ==
  /\ Openable
  /\ ~Relative(last.tr.urlRaw)

\* C5 as stated: for an openable item a non-empty override is put verbatim
\* into the single variant parameter and the title suffix, and the card is
\* rendered; without override nothing is added.
C5_OverrideVerbatim ==
  (calls > 0 /\ Openable) =>
    IF Len(RawOverride) > 0 THEN CardWith(RawOverride) ELSE CardPlain

\* C5, amended: for an item whose url is an absolute http(s) URL, an override
\* that is non-empty once trimmed is put, trimmed, into the single variant
\* parameter and the title suffix, and the card is rendered whether or not
\* the override is in item.variants; an override that is empty once trimmed
\* adds nothing.
C5_OverrideTrimmed ==
  (calls > 0 /\ AbsoluteHttp) =>
    IF Len(trim(RawOverride)) > 0 THEN CardWith(trim(RawOverride)) ELSE CardPlain

\* C5, reached: an override outside item.variants replaced the url's two variant parameters
C5_Witness ==
  /\ calls = 1
  /\ last.tr.warned
  /\ Len(VariantValues(last.tr.urlRaw)) = 2
  /\ CardWith(<<"k", "=", "1">>)

ProducerThrew ==
  /\ last.tr.dsResolved
  /\ Field(last.opts, "dataset").t = "function"
  /\ Field(last.opts, "dataset").throws

\* C8 as stated: whatever throws in the pipeline, render returns normally
\* and leaves exactly one error panel, no card, no overlay and no scheduled
\* navigation.
C8_FaultLeavesOnePanel ==
  (calls > 0 /\ (last.threw \/ ProducerThrew)) =>
    /\ ~last.propagated
    /\ Len(last.newPanels) = 1
    /\ last.newCards = <<>>
    /\ last.newOverlays = 0
    /\ last.newTimers = {}

\* C8, amended: render never propagates an exception.  When the try block
\* throws (the caller's resolveItem, URL parsing of the item url, or
\* document.querySelector on the target) the call leaves no card, no
\* overlay and no scheduled navigation; it leaves exactly the runtime-error
\* panel with the escaped message when the target selector is valid, and no
\* panel but a console.error when it is not.  A dataset producer that throws
\* is swallowed by resolveDataset: the call does not take the catch path for
\* it and ends with one card or one panel like any other call.
C8_FaultsAreContained ==
  calls > 0 =>
    /\ ~last.propagated
    /\ last.threw =>
         /\ last.newCards = <<>>
         /\ last.newOverlays = 0
         /\ last.newTimers = {}
         /\ IF normalizeOptions(last.opts).target \in ValidSelector
            THEN /\ PanelKinds = <<"runtime-error">>
                 /\ last.newPanels[1].detail = escapeHtml(last.message)
            ELSE /\ last.newPanels = <<>>
                 /\ Len(consoleLog) > 0
                 /\ consoleLog[Len(consoleLog)] = <<"error", last.message>>
    /\ ~last.threw => Len(last.newPanels) + Len(last.newCards) = 1

\* C8, reached: URL parsing of the item url threw and the call left the runtime-error panel
C8_Witness ==
  /\ calls = 1
  /\ last.threw
  /\ last.message = <<"Invalid URL">>
  /\ PanelKinds = <<"runtime-error">>

\* the dataset holds a record for id: one whose id or quizId is id, or one
\* keyed by id
Holds(ds, id) ==
  \/ /\ ds.t = "array"
     /\ \E i \in 1..Len(ds.a) :
          /\ ds.a[i].t = "object"
          /\ (ds.a[i].id = JsStr(id) \/ ds.a[i].quizId = JsStr(id))
  \/ /\ ds.t = "object"
     /\ \E i \in 1..Len(ds.vals) :
          \/ ds.keys[i] = id
          \/ ds.vals[i].id = JsStr(id) \/ ds.vals[i].quizId = JsStr(id)

\* C3: for a valid id and a dataset that holds a record for it (by id, by
\* quizId or by key), the item defaultResolveItem returns has that id.
C3_ResolvedItemHasQueryId ==
  (fnOut.f = "defaultResolveItem" /\ Holds(fnIn.ds, fnIn.id)) =>
    fnOut.ret.id = JsStr(fnIn.id)

\* the page's `data`: the lexical binding first, then globalThis.data
AmbientData(amb) ==
  IF amb.lex.t \notin {"undeclared", "undefined"} THEN amb.lex
  ELSE IF amb.glob.t # "undefined" THEN amb.glob
  ELSE Undefined

\* C9: when the producer throws, resolveDataset returns the page's `data`
\* binding if there is one and undefined otherwise, never the producer.
C9_ThrowingProducerIsNoDataset ==
  (fnOut.f = "resolveDataset" /\ fnIn.ds.t = "function" /\ fnIn.ds.throws) =>
    /\ fnOut.ret = AmbientData(fnIn.amb)
    /\ fnOut.ret.t # "function"

====
